---- MODULE Spec2Model ----
(***************************************************************************)
(* Model of AdvancedSentimentAnalyzer (src/advanced_sentiment_analysis.py). *)
(*                                                                         *)
(* A text is a sequence of tokens: the token " " is one whitespace         *)
(* character, every other token is a run of non-whitespace characters.     *)
(* Confidences and weights are exact rationals <<numerator, denominator>>  *)
(* in lowest terms; the Python floats are modelled without rounding.       *)
(* The three library classifiers (transformer pipeline, VADER, TextBlob)   *)
(* are external: each call either raises or yields a value drawn from a    *)
(* small set.                                                              *)
(***************************************************************************)
EXTENDS Integers, Sequences, FiniteSets, Bags, TLC

(* ------------------------------ bounds --------------------------------- *)

\* longest text, in tokens
MaxTextLen == 2

\* library scores are drawn from k/ConfGrid, k in 0..ConfGrid
ConfGrid == 2

(* ---------------------------- rationals -------------------------------- *)

RECURSIVE GCD(_, _)
GCD(a, b) == IF b = 0 THEN a ELSE GCD(b, a % b)

Abs(n) == IF n < 0 THEN 0 - n ELSE n

\* n/d in lowest terms, d > 0
Rat(n, d) == LET g == GCD(Abs(n), d) IN <<n \div g, d \div g>>

Zero == <<0, 1>>
One == <<1, 1>>

RAdd(a, b) == Rat(a[1] * b[2] + b[1] * a[2], a[2] * b[2])
RSub(a, b) == Rat(a[1] * b[2] - b[1] * a[2], a[2] * b[2])
RMul(a, b) == Rat(a[1] * b[1], a[2] * b[2])
\* a / b for b > 0
RDiv(a, b) == Rat(a[1] * b[2], a[2] * b[1])
RAbs(a) == <<Abs(a[1]), a[2]>>
RLt(a, b) == a[1] * b[2] < b[1] * a[2]
RLeq(a, b) == a[1] * b[2] <= b[1] * a[2]
RMin(a, b) == IF RLt(b, a) THEN b ELSE a

RECURSIVE RSumFrom(_, _)
RSumFrom(s, i) == IF i > Len(s) THEN Zero ELSE RAdd(s[i], RSumFrom(s, i + 1))

\* Python sum(list)
RSum(s) == RSumFrom(s, 1)

(* ------------------------------ texts ---------------------------------- *)

Tokens == {" ", "ok", "Happy", "rude"}

Texts == UNION {[1..n -> Tokens] : n \in 0..MaxTextLen}

\* str.lower(), token by token
Lower(tok) == IF tok = "Happy" THEN "happy" ELSE tok

RECURSIVE StrLenFrom(_, _)
StrLenFrom(s, i) == IF i > Len(s) THEN 0 ELSE Len(s[i]) + StrLenFrom(s, i + 1)

\* len(str): number of characters
StrLen(s) == StrLenFrom(s, 1)

RECURSIVE LStrip(_)
LStrip(s) == IF s # <<>> /\ Head(s) = " " THEN LStrip(Tail(s)) ELSE s

RECURSIVE RStrip(_)
RStrip(s) ==
    IF s # <<>> /\ s[Len(s)] = " " THEN RStrip(SubSeq(s, 1, Len(s) - 1)) ELSE s

\* str.strip()
Strip(s) == RStrip(LStrip(s))

RECURSIVE SplitFrom(_, _, _, _)
SplitFrom(s, i, cur, acc) ==
    IF i > Len(s)
    THEN IF cur = "" THEN acc ELSE Append(acc, cur)
    ELSE IF s[i] = " "
         THEN SplitFrom(s, i + 1, "", IF cur = "" THEN acc ELSE Append(acc, cur))
         ELSE SplitFrom(s, i + 1, cur \o s[i], acc)

\* text.lower().split(): the words, each the concatenation of adjacent tokens
LowerSplit(s) == SplitFrom([i \in DOMAIN s |-> Lower(s[i])], 1, "", <<>>)

(* --------------------------- library values ---------------------------- *)

Labels == {"Positive", "Negative", "Neutral"}

GridVals == {Rat(k, ConfGrid) : k \in 0..ConfGrid}

Neg(a) == <<0 - a[1], a[2]>>

\* outcome of a library call that raised
Raise == <<"raise">>

\* labels of cardiffnlp/twitter-roberta-base-sentiment-latest
RawLabels == {"positive", "negative", "neutral"}

TransformerOutcomes ==
    {Raise} \cup (RawLabels \X GridVals)

\* compound scores, with the values around the +-0.05 thresholds
VaderOutcomes ==
    {Raise} \cup GridVals \cup {Neg(v) : v \in GridVals}
            \cup {<<1, 20>>, <<-1, 20>>, <<1, 25>>}

\* polarities, with the values on the +-0.1 thresholds
TextBlobOutcomes ==
    {Raise} \cup GridVals \cup {Neg(v) : v \in GridVals}
            \cup {<<1, 10>>, <<-1, 10>>}

(* ------------------------------- state --------------------------------- *)

VARIABLES
    use_advanced,               \* self.use_advanced
    transformer_model,          \* self.transformer_model: "loaded" or "unset"
    vader,                      \* self.vader
    customer_service_positive,  \* self.customer_service_positive
    customer_service_negative,  \* self.customer_service_negative
    pc,                         \* position inside ensemble_analysis
    text,                       \* argument of the running call
    results,                    \* list of (sentiment, confidence, method)
    methods_used,               \* list of display names
    weights,                    \* the weights list
    sentiment_scores,           \* accumulator per label
    total_confidence,           \* running total of weight * confidence
    ret,                        \* returned triple, or NoValue
    invoked,                    \* sources called by the running call
    raised                      \* sources whose library call raised

fields == <<use_advanced, transformer_model, vader,
            customer_service_positive, customer_service_negative>>

locals == <<text, results, methods_used, weights, sentiment_scores,
            total_confidence, ret, invoked, raised>>

VARIABLES
    program,                    \* which script's objects exist
    current_data,               \* SentimentGUI.current_data: None or a frame
    selected_column,            \* SentimentGUI.selected_column (StringVar)
    output_column_name,         \* SentimentGUI.output_column_name (StringVar)
    analysis_running,           \* SentimentGUI.analysis_running
    analyze_button,             \* state of the Start button
    stop_button,                \* state of the Stop button
    after_queue,                \* callbacks scheduled with root.after(0, ...)
    runs,                       \* bag of the run_analysis threads alive
    started,                    \* number of threads start_analysis created
    model_choice,               \* MultiModelSentimentAnalyzer.model_choice
    available_models,           \* ModelSelector.available_models[k]['available']
    selected_model,             \* MultiModelSentimentAnalyzer.selected_model
    analyzer,                   \* MultiModelSentimentAnalyzer.analyzer
    mm_pc,                      \* position of the multi-model caller
    batch_total,                \* batch_analyze: total = len(texts)
    batch_i,                    \* batch_analyze: loop index i = len(results)
    show_progress,              \* batch_analyze: argument
    printed                     \* batch_analyze: last progress line printed

guiVars == <<current_data, selected_column, output_column_name,
             analysis_running, analyze_button, stop_button, after_queue,
             runs, started>>

mmVars == <<model_choice, available_models, selected_model, analyzer, mm_pc, batch_total,
            batch_i, show_progress, printed>>

ensembleVars == <<fields, pc, locals>>

vars == <<program, ensembleVars, guiVars, mmVars>>

\* Python None
NoValue == <<>>

PositiveWords ==
    {"professional", "helpful", "courteous", "patient", "knowledgeable",
     "efficient", "quick", "responsive", "thorough", "excellent",
     "resolved", "solved", "fixed", "helped", "assisted", "guided",
     "explained", "clarified", "understood", "satisfied",
     "thank", "appreciate", "grateful", "pleased", "happy",
     "recommend", "impressed", "outstanding", "amazing", "perfect"}

NegativeWords ==
    {"unprofessional", "rude", "impatient", "unhelpful", "slow",
     "confusing", "unclear", "difficult", "complicated", "frustrated",
     "unresolved", "unsolved", "failed", "unable", "refused",
     "ignored", "dismissed", "hung up", "transferred", "waiting",
     "disappointed", "angry", "upset", "annoyed", "complain",
     "terrible", "awful", "worst", "horrible", "disgusted"}

ZeroScores == [l \in Labels |-> Zero]

\* AdvancedSentimentAnalyzer.__init__: the flag survives only when the
\* caller asked for it, transformers imported and the pipeline loaded
\* current_data before a file is loaded (Python None)
None == [rows |-> 0, columns |-> {}, none |-> TRUE]

\* SentimentGUI.__init__ and create_widgets; also the value these variables
\* keep while another script runs
GuiInit ==
    /\ current_data = None
    /\ selected_column = ""
    /\ output_column_name = ""
    /\ analysis_running = FALSE
    /\ analyze_button = "disabled"
    /\ stop_button = "disabled"
    /\ after_queue = <<>>
    /\ runs = EmptyBag
    /\ started = 0

\* no AdvancedSentimentAnalyzer has been constructed
EnsembleOff ==
    /\ use_advanced = FALSE
    /\ transformer_model = "unset"
    /\ vader = "unset"
    /\ customer_service_positive = {}
    /\ customer_service_negative = {}
    /\ pc = "off"
    /\ text = <<>>
    /\ results = <<>>
    /\ methods_used = <<>>
    /\ weights = <<>>
    /\ sentiment_scores = ZeroScores
    /\ total_confidence = Zero
    /\ ret = NoValue
    /\ invoked = {}
    /\ raised = {}

\* no MultiModelSentimentAnalyzer has been constructed
NoMultiModel ==
    /\ model_choice = "None"
    /\ available_models = <<>>
    /\ selected_model = "None"
    /\ analyzer = "None"
    /\ mm_pc = "new"
    /\ batch_total = 0
    /\ batch_i = 0
    /\ show_progress = FALSE
    /\ printed = <<>>

Init ==
    /\ \E arg \in BOOLEAN, TRANSFORMERS_AVAILABLE \in BOOLEAN, loaded \in BOOLEAN :
          /\ use_advanced = (arg /\ TRANSFORMERS_AVAILABLE /\ loaded)
          /\ transformer_model =
                IF arg /\ TRANSFORMERS_AVAILABLE /\ loaded THEN "loaded" ELSE "unset"
    /\ vader = "SentimentIntensityAnalyzer"
    /\ customer_service_positive = PositiveWords
    /\ customer_service_negative = NegativeWords
    /\ pc = "idle"
    /\ text = <<>>
    /\ results = <<>>
    /\ methods_used = <<>>
    /\ weights = <<>>
    /\ sentiment_scores = ZeroScores
    /\ total_confidence = Zero
    /\ ret = NoValue
    /\ invoked = {}
    /\ raised = {}
    /\ program = "advanced_sentiment_analysis"
    /\ GuiInit
    /\ NoMultiModel

(* ------------------------- judgment sources ---------------------------- *)

\* str.upper() on the labels the pipeline emits
Upper(l) ==
    CASE l = "positive" -> "POSITIVE"
      [] l = "negative" -> "NEGATIVE"
      [] l = "neutral" -> "NEUTRAL"

\* 'POS' in label, 'NEG' in label
ContainsPOS(l) == l \in {"POSITIVE"}
ContainsNEG(l) == l \in {"NEGATIVE"}

\* advanced_analysis(text); outcome is what self.transformer_model(text) did
advanced_analysis(flag, outcome) ==
    IF ~flag THEN NoValue
    ELSE IF outcome = Raise THEN NoValue
    ELSE LET label == Upper(outcome[1])
             score == outcome[2]
         IN IF ContainsPOS(label) THEN <<"Positive", score, "transformer">>
            ELSE IF ContainsNEG(label) THEN <<"Negative", score, "transformer">>
            ELSE <<"Neutral", score, "transformer">>

\* vader_analysis(text); outcome is what polarity_scores(text)['compound'] did
vader_analysis(outcome) ==
    IF outcome = Raise THEN NoValue
    ELSE LET compound == outcome
         IN IF RLeq(<<1, 20>>, compound)
            THEN <<"Positive", RAbs(compound), "vader">>
            ELSE IF RLeq(compound, <<-1, 20>>)
            THEN <<"Negative", RAbs(compound), "vader">>
            ELSE <<"Neutral", RSub(One, RAbs(compound)), "vader">>

\* textblob_analysis(text); outcome is what TextBlob(text).sentiment.polarity did
textblob_analysis(outcome) ==
    IF outcome = Raise THEN <<"Neutral", <<1, 2>>, "textblob">>
    ELSE LET polarity == outcome
         IN IF RLt(<<1, 10>>, polarity)
            THEN <<"Positive", polarity, "textblob">>
            ELSE IF RLt(polarity, <<-1, 10>>)
            THEN <<"Negative", RAbs(polarity), "textblob">>
            ELSE <<"Neutral", RAbs(polarity), "textblob">>

RECURSIVE CountIn(_, _, _)
CountIn(words, i, set) ==
    IF i > Len(words) THEN 0
    ELSE (IF words[i] \in set THEN 1 ELSE 0) + CountIn(words, i + 1, set)

\* mutant: no lexicon word or a draw gives confidence 0
domain_specific_analysis_unsure(t, positive, negative) ==
    LET words == LowerSplit(t)
        pos_count == CountIn(words, 1, positive)
        neg_count == CountIn(words, 1, negative)
        total_sentiment_words == pos_count + neg_count
    IN IF total_sentiment_words = 0 THEN <<"Neutral", Zero, "domain">>
       ELSE IF pos_count > neg_count
       THEN <<"Positive", Rat(pos_count, total_sentiment_words), "domain">>
       ELSE IF neg_count > pos_count
       THEN <<"Negative", Rat(neg_count, total_sentiment_words), "domain">>
       ELSE <<"Neutral", Zero, "domain">>

\* domain_specific_analysis(text)
domain_specific_analysis(t, positive, negative) ==
    LET words == LowerSplit(t)
        pos_count == CountIn(words, 1, positive)
        neg_count == CountIn(words, 1, negative)
        total_sentiment_words == pos_count + neg_count
    IN IF total_sentiment_words = 0 THEN <<"Neutral", <<1, 2>>, "domain">>
       ELSE IF pos_count > neg_count
       THEN <<"Positive", Rat(pos_count, total_sentiment_words), "domain">>
       ELSE IF neg_count > pos_count
       THEN <<"Negative", Rat(neg_count, total_sentiment_words), "domain">>
       ELSE <<"Neutral", <<1, 2>>, "domain">>

(* ---------------------------- the ensemble ----------------------------- *)

\* mutant: the length test without strip()
IsEmptyText_nostrip(t) == t = <<>> \/ StrLen(t) < 3

\* not text or len(text.strip()) < 3
IsEmptyText(t) == t = <<>> \/ StrLen(Strip(t)) < 3

\* mutant: the 0.5 appended after the other weights
Schedule_last(flag, res) ==
    IF flag /\ Len(res) >= 1
    THEN <<(<<1, 4>>), (<<3, 20>>), (<<1, 10>>)>> \o <<(<<1, 2>>)>>
    ELSE <<(<<2, 5>>), (<<3, 10>>), (<<3, 10>>)>>

\* mutant: the three-entry list whatever use_advanced is
Schedule_short(flag, res) ==
    <<(<<2, 5>>), (<<3, 10>>), (<<3, 10>>)>>

\* the weight list chosen at lines 218-223
Schedule(flag, res) ==
    IF flag /\ Len(res) >= 1
    THEN <<(<<1, 2>>)>> \o <<(<<1, 4>>), (<<3, 20>>), (<<1, 10>>)>>
    ELSE <<(<<2, 5>>), (<<3, 10>>), (<<3, 10>>)>>

\* weights[:len(results)]
Truncate(w, res) == SubSeq(w, 1, IF Len(res) < Len(w) THEN Len(res) ELSE Len(w))

\* mutant: the truncated weights used as they are
Normalize_skip(w) == w

\* mutant: the weights divided by the first of them
Normalize_first(w) == [i \in DOMAIN w |-> RDiv(w[i], w[1])]

\* [w / sum(weights) for w in weights]
Normalize(w) == LET total == RSum(w) IN [i \in DOMAIN w |-> RDiv(w[i], total)]

\* the voting loop; error is the IndexError of weights[i] or the KeyError of
\* sentiment_scores[sentiment]
RECURSIVE VoteFrom(_, _, _, _)
VoteFrom(res, w, i, acc) ==
    IF i > Len(res) THEN acc
    ELSE IF i > Len(w) \/ res[i][1] \notin DOMAIN acc.scores
    THEN [acc EXCEPT !.error = TRUE]
    ELSE LET add == RMul(w[i], res[i][2])
         IN VoteFrom(res, w, i + 1,
                [scores |-> [acc.scores EXCEPT ![res[i][1]] = RAdd(@, add)],
                 total |-> RAdd(acc.total, add),
                 error |-> FALSE])

\* mutant: the confidence added without its weight
Vote_unweighted(res, w) ==
    VoteFrom(res, [i \in DOMAIN w |-> One], 1,
             [scores |-> ZeroScores, total |-> Zero, error |-> FALSE])

\* lines 229-236
Vote(res, w) ==
    VoteFrom(res, w, 1, [scores |-> ZeroScores, total |-> Zero, error |-> FALSE])

\* iteration order of the dict literal at line 230
ItemOrder == <<"Positive", "Negative", "Neutral">>

RECURSIVE MaxFrom(_, _, _)
MaxFrom(scores, i, best) ==
    IF i > Len(ItemOrder) THEN best
    ELSE MaxFrom(scores, i + 1,
            IF RLt(scores[best], scores[ItemOrder[i]]) THEN ItemOrder[i] ELSE best)

RECURSIVE MaxFromLast(_, _, _)
MaxFromLast(scores, i, best) ==
    IF i > Len(ItemOrder) THEN best
    ELSE MaxFromLast(scores, i + 1,
            IF RLeq(scores[best], scores[ItemOrder[i]]) THEN ItemOrder[i] ELSE best)

\* mutant: among equal scores the last item wins
MaxKey_last(scores) == MaxFromLast(scores, 2, ItemOrder[1])

\* max(sentiment_scores.items(), key=lambda x: x[1])[0]: the first maximal item
MaxKey(scores) == MaxFrom(scores, 2, ItemOrder[1])

\* mutant: the confidence as a percentage
FinalConfidence_percent(scores, final) ==
    RMin(RMul(scores[final], <<100, 1>>), <<100, 1>>)

\* mutant: the total of all labels' scores
FinalConfidence_total(scores, final) ==
    RMin(RAdd(scores["Positive"], RAdd(scores["Negative"], scores["Neutral"])), One)

\* min(sentiment_scores[final_sentiment], 1.0)
FinalConfidence(scores, final) == RMin(scores[final], One)

RECURSIVE JoinFrom(_, _, _)
JoinFrom(s, i, sep) ==
    IF i > Len(s) THEN ""
    ELSE IF i = Len(s) THEN s[i]
    ELSE s[i] \o sep \o JoinFrom(s, i + 1, sep)

\* f"Ensemble({'+'.join(methods_used)})"
MethodInfo(used) == "Ensemble(" \o JoinFrom(used, 1, "+") \o ")"

(* ------------------------------ actions -------------------------------- *)

\* ensemble_analysis(text), lines 182-188
Call(t) ==
    /\ pc = "idle"
    /\ text' = t
    /\ results' = <<>>
    /\ methods_used' = <<>>
    /\ IF IsEmptyText(t)
       THEN /\ ret' = <<"Neutral", <<1, 2>>, "empty">>
            /\ pc' = "returned"
       ELSE /\ ret' = NoValue
            /\ pc' = "advanced"
    /\ UNCHANGED <<fields, weights, sentiment_scores, total_confidence,
                   invoked, raised>>
    /\ UNCHANGED <<program, guiVars, mmVars>>

\* mutant: a failed transformer call switches the advanced model off, as the
\* constructor does when loading fails
TryAdvanced_disable ==
    /\ pc = "advanced"
    /\ IF use_advanced
       THEN \E outcome \in TransformerOutcomes :
               LET advanced_result == advanced_analysis(use_advanced, outcome)
               IN /\ invoked' = invoked \cup {"BERT/RoBERTa"}
                  /\ raised' = IF outcome = Raise
                               THEN raised \cup {"BERT/RoBERTa"} ELSE raised
                  /\ use_advanced' = IF outcome = Raise THEN FALSE ELSE use_advanced
                  /\ IF advanced_result # NoValue
                     THEN /\ results' = Append(results, advanced_result)
                          /\ methods_used' = Append(methods_used, "BERT/RoBERTa")
                     ELSE UNCHANGED <<results, methods_used>>
       ELSE UNCHANGED <<use_advanced, invoked, raised, results, methods_used>>
    /\ pc' = "vader"
    /\ UNCHANGED <<transformer_model, vader, customer_service_positive,
                   customer_service_negative, text, weights, sentiment_scores,
                   total_confidence, ret>>
    /\ UNCHANGED <<program, guiVars, mmVars>>

\* lines 190-195
TryAdvanced ==
    /\ pc = "advanced"
    /\ IF use_advanced
       THEN \E outcome \in TransformerOutcomes :
               LET advanced_result == advanced_analysis(use_advanced, outcome)
               IN /\ invoked' = invoked \cup {"BERT/RoBERTa"}
                  /\ raised' = IF outcome = Raise
                               THEN raised \cup {"BERT/RoBERTa"} ELSE raised
                  /\ IF advanced_result # NoValue
                     THEN /\ results' = Append(results, advanced_result)
                          /\ methods_used' = Append(methods_used, "BERT/RoBERTa")
                     ELSE UNCHANGED <<results, methods_used>>
       ELSE UNCHANGED <<invoked, raised, results, methods_used>>
    /\ pc' = "vader"
    /\ UNCHANGED <<fields, text, weights, sentiment_scores, total_confidence, ret>>
    /\ UNCHANGED <<program, guiVars, mmVars>>

\* lines 197-201
TryVader ==
    /\ pc = "vader"
    /\ \E outcome \in VaderOutcomes :
          LET vader_result == vader_analysis(outcome)
          IN /\ invoked' = invoked \cup {"VADER"}
             /\ raised' = IF outcome = Raise THEN raised \cup {"VADER"} ELSE raised
             /\ IF vader_result # NoValue
                THEN /\ results' = Append(results, vader_result)
                     /\ methods_used' = Append(methods_used, "VADER")
                ELSE UNCHANGED <<results, methods_used>>
    /\ pc' = "domain"
    /\ UNCHANGED <<fields, text, weights, sentiment_scores, total_confidence, ret>>
    /\ UNCHANGED <<program, guiVars, mmVars>>

\* lines 203-206
DomainStep ==
    /\ pc = "domain"
    /\ LET domain_result ==
              domain_specific_analysis(text, customer_service_positive,
                                       customer_service_negative)
       IN results' = Append(results, domain_result)
    /\ methods_used' = Append(methods_used, "Domain-Specific")
    /\ invoked' = invoked \cup {"Domain-Specific"}
    /\ pc' = "textblob"
    /\ UNCHANGED <<fields, text, weights, sentiment_scores, total_confidence,
                   ret, raised>>
    /\ UNCHANGED <<program, guiVars, mmVars>>

\* mutant: a failed TextBlob is left out, as a failed VADER is
TextBlobStep_guarded ==
    /\ pc = "textblob"
    /\ \E outcome \in TextBlobOutcomes :
          /\ results' = IF outcome = Raise THEN results
                        ELSE Append(results, textblob_analysis(outcome))
          /\ methods_used' = IF outcome = Raise THEN methods_used
                             ELSE Append(methods_used, "TextBlob")
          /\ raised' = IF outcome = Raise THEN raised \cup {"TextBlob"} ELSE raised
    /\ invoked' = invoked \cup {"TextBlob"}
    /\ pc' = "weights"
    /\ UNCHANGED <<fields, text, weights, sentiment_scores, total_confidence, ret>>
    /\ UNCHANGED <<program, guiVars, mmVars>>

\* lines 208-211
TextBlobStep ==
    /\ pc = "textblob"
    /\ \E outcome \in TextBlobOutcomes :
          /\ results' = Append(results, textblob_analysis(outcome))
          /\ raised' = IF outcome = Raise THEN raised \cup {"TextBlob"} ELSE raised
    /\ methods_used' = Append(methods_used, "TextBlob")
    /\ invoked' = invoked \cup {"TextBlob"}
    /\ pc' = "weights"
    /\ UNCHANGED <<fields, text, weights, sentiment_scores, total_confidence, ret>>
    /\ UNCHANGED <<program, guiVars, mmVars>>

\* lines 213-223
SetWeights ==
    /\ pc = "weights"
    /\ IF results = <<>>
       THEN /\ ret' = <<"Neutral", <<1, 2>>, "fallback">>
            /\ pc' = "returned"
            /\ UNCHANGED weights
       ELSE /\ weights' = Schedule(use_advanced, results)
            /\ pc' = "vote"
            /\ UNCHANGED ret
    /\ UNCHANGED <<fields, text, results, methods_used, sentiment_scores,
                   total_confidence, invoked, raised>>
    /\ UNCHANGED <<program, guiVars, mmVars>>

\* lines 225-244
Decide ==
    /\ pc = "vote"
    /\ \E w \in {Normalize(Truncate(weights, results))} :
       \E v \in {Vote(results, w)} :
          LET final_sentiment == MaxKey(v.scores)
              final_confidence == FinalConfidence(v.scores, final_sentiment)
              method_info == MethodInfo(methods_used)
          IN /\ weights' = w
             /\ sentiment_scores' = v.scores
             /\ total_confidence' = v.total
             /\ IF v.error
                THEN /\ pc' = "error"
                     /\ UNCHANGED ret
                ELSE /\ pc' = "returned"
                     /\ ret' = <<final_sentiment, final_confidence, method_info>>
    /\ UNCHANGED <<fields, text, results, methods_used, invoked, raised>>
    /\ UNCHANGED <<program, guiVars, mmVars>>

\* the caller takes the triple (lines 274-275); the call's locals are gone
Finish ==
    /\ pc = "returned"
    /\ pc' = "idle"
    /\ text' = <<>>
    /\ results' = <<>>
    /\ methods_used' = <<>>
    /\ weights' = <<>>
    /\ sentiment_scores' = ZeroScores
    /\ total_confidence' = Zero
    /\ ret' = NoValue
    /\ invoked' = {}
    /\ raised' = {}
    /\ UNCHANGED fields
    /\ UNCHANGED <<program, guiVars, mmVars>>

Next ==
    \/ \E t \in Texts : Call(t)
    \/ TryAdvanced
    \/ TryVader
    \/ DomainStep
    \/ TextBlobStep
    \/ SetWeights
    \/ Decide
    \/ Finish

Spec == Init /\ [][Next]_vars

(* ------------------------------ claims --------------------------------- *)

\* the call has returned from the weighted vote (not from a short-circuit)
Voted == pc = "returned" /\ results # <<>>

InUnit(c) == RLeq(Zero, c) /\ RLeq(c, One)

\* a transformer judgment is in the list
HasTransformer == \E i \in DOMAIN results : results[i][3] = "transformer"

HighSchedule == <<(<<1, 2>>), (<<1, 4>>), (<<3, 20>>), (<<1, 10>>)>>
AltSchedule == <<(<<2, 5>>), (<<3, 10>>), (<<3, 10>>)>>

\* tags of the judgments, in list order
Tags == [i \in DOMAIN results |-> results[i][3]]

\* C1: every judgment handed to the vote has a label in {Positive, Negative,
\* Neutral} and a confidence in [0,1], and every return of ensemble_analysis
\* carries a label in {Positive, Negative, Neutral} and a confidence in [0,1].
C1_ResultInRange ==
    /\ \A i \in DOMAIN results :
          results[i][1] \in Labels /\ InUnit(results[i][2])
    /\ pc = "returned" =>
          /\ ret[1] \in {"Positive", "Negative", "Neutral"}
          /\ InUnit(ret[2])

\* a four-judgment vote won by a label with a confidence strictly inside (0,1)
C1_Witness ==
    /\ Voted
    /\ Len(results) = 4
    /\ RLt(Zero, ret[2]) /\ RLt(ret[2], One)

\* C2: a text that is empty or has fewer than 3 characters after trimming
\* returns exactly (Neutral, 0.5, 'empty'), and no judgment source was called.
C2_EmptyShortCircuit ==
    (pc # "idle" /\ (Len(text) = 0 \/ StrLen(Strip(text)) < 3)) =>
        /\ pc = "returned"
        /\ ret = <<"Neutral", <<1, 2>>, "empty">>
        /\ invoked = {}

\* a non-empty text of three characters, two after trimming
C2_Witness ==
    /\ pc = "returned"
    /\ text = <<" ", "ok">>
    /\ ret[3] = "empty"

\* C3: after a vote the weights used are one per judgment and sum to 1.
C3_WeightsSumToOne ==
    Voted => /\ Len(weights) = Len(results)
             /\ RSum(weights) = One

\* transformer and VADER both failed under use_advanced: two judgments
C3_Witness ==
    /\ Voted
    /\ use_advanced
    /\ raised = {"BERT/RoBERTa", "VADER"}
    /\ weights = <<(<<2, 3>>), (<<1, 3>>)>>

\* C4: a transformer judgment is the first entry; with it present the
\* schedule is 0.5, 0.25, 0.15, 0.10 over the judgments in the order
\* transformer, VADER, Domain-Specific, TextBlob; with all four sources the
\* weights used are exactly that schedule, with VADER missing they are the
\* first three entries renormalized.
C4_TransformerSchedule ==
    /\ \A i \in DOMAIN results : results[i][3] = "transformer" => i = 1
    /\ (pc = "vote" /\ HasTransformer) =>
          /\ weights = HighSchedule
          /\ Tags \in {<<"transformer", "vader", "domain", "textblob">>,
                       <<"transformer", "domain", "textblob">>}
    /\ (Voted /\ HasTransformer /\ Len(results) = 4) => weights = HighSchedule
    /\ (Voted /\ HasTransformer /\ Len(results) = 3) =>
          weights = <<(<<5, 9>>), (<<5, 18>>), (<<1, 6>>)>>

\* all four sources contributed
C4_Witness ==
    /\ Voted
    /\ Tags = <<"transformer", "vader", "domain", "textblob">>
    /\ raised = {}

\* C5: whenever no transformer judgment is in the list the schedule is
\* 0.4, 0.3, 0.3, and the 0.5-led schedule is chosen only when a transformer
\* judgment is present.
C5_AlternateSchedule ==
    pc = "vote" => weights = (IF HasTransformer THEN HighSchedule ELSE AltSchedule)

RECURSIVE LabelScoreFrom(_, _)
LabelScoreFrom(l, i) ==
    IF i > Len(results) THEN Zero
    ELSE RAdd(IF results[i][1] = l THEN RMul(weights[i], results[i][2]) ELSE Zero,
              LabelScoreFrom(l, i + 1))

\* C6: after a vote each label's accumulator equals the sum, from 0, of
\* weight[i]*confidence[i] over the judgments carrying that label, and the
\* final label's accumulator is at least every other label's.
C6_AccumulateAndMax ==
    Voted =>
        /\ \A l \in Labels : sentiment_scores[l] = LabelScoreFrom(l, 1)
        /\ \A l \in Labels : RLeq(sentiment_scores[l], sentiment_scores[ret[1]])

\* all three labels received a judgment with a positive contribution
C6_Witness ==
    /\ Voted
    /\ \A l \in Labels : RLt(Zero, sentiment_scores[l])

\* the fixed order Positive, Negative, Neutral
TieRank(l) == CASE l = "Positive" -> 1 [] l = "Negative" -> 2 [] l = "Neutral" -> 3

\* C7: among the labels sharing the maximum score the final label is the
\* first in the order Positive, Negative, Neutral, whatever the order of the
\* judgments.
C7_TieBreakOrder ==
    Voted =>
        \A l \in Labels :
            sentiment_scores[l] = sentiment_scores[ret[1]] =>
                TieRank(ret[1]) <= TieRank(l)

\* Positive and Negative tie at the maximum while the first judgment
\* collected is Negative
C7_Witness ==
    /\ Voted
    /\ results[1][1] = "Negative"
    /\ sentiment_scores["Positive"] = sentiment_scores["Negative"]
    /\ RLt(sentiment_scores["Neutral"], sentiment_scores["Positive"])
    /\ ret[1] = "Positive"

\* C8: the final confidence is min(score of the final label, 1.0).
C8_ConfidenceIsWinnerScore ==
    Voted =>
        ret[2] = (IF RLt(One, sentiment_scores[ret[1]])
                  THEN One ELSE sentiment_scores[ret[1]])

\* the total of all scores differs from the winner's score
C8_Witness ==
    /\ Voted
    /\ total_confidence # sentiment_scores[ret[1]]
    /\ ret[2] = sentiment_scores[ret[1]]

SourceNames == <<"BERT/RoBERTa", "VADER", "Domain-Specific", "TextBlob">>

\* display name of the source behind a judgment's tag
NameOfTag(tag) ==
    CASE tag = "transformer" -> "BERT/RoBERTa"
      [] tag = "vader" -> "VADER"
      [] tag = "domain" -> "Domain-Specific"
      [] tag = "textblob" -> "TextBlob"

Contributed(name) == \E i \in DOMAIN results : NameOfTag(results[i][3]) = name

\* C9: the provenance names exactly the sources whose judgments are in the
\* list, once each, in evaluation order, and names no source that failed or
\* was not consulted.
C9_Provenance ==
    Voted =>
        /\ ret[3] = "Ensemble("
                    \o JoinFrom(SelectSeq(SourceNames, Contributed), 1, "+")
                    \o ")"
        /\ \A i \in DOMAIN methods_used :
              /\ methods_used[i] \in invoked
              /\ methods_used[i] \notin raised

\* C10: no call raises, and every vote returns a well-formed triple computed
\* from the sources that did not fail, with weights renormalized over them.
C10_FailuresExcluded ==
    /\ pc # "error"
    /\ Voted =>
          /\ ret[1] \in Labels /\ InUnit(ret[2])
          /\ Len(weights) = Len(results)
          /\ RSum(weights) = One
          /\ \A i \in DOMAIN results : NameOfTag(results[i][3]) \notin raised

\* C11: a source whose library call raised (transformer, VADER or TextBlob)
\* has no judgment in the list, so it gets no weight and adds to no score.
C11_FailedSourceAbsent ==
    \A name \in raised : ~Contributed(name)

\* C14: no step of ensemble_analysis changes a field of the analyzer
\* (use_advanced, the model handles, the two lexicon sets), so every call
\* starts from the fields the constructor left.
C14_FieldsUnchanged == [][fields' = fields]_vars

\* a vote has returned with the transformer having failed on the way
C14_Witness ==
    /\ Voted
    /\ use_advanced
    /\ "BERT/RoBERTa" \in raised
    /\ transformer_model = "loaded"
    /\ customer_service_positive = PositiveWords
    /\ customer_service_negative = NegativeWords

(* ------------------------- sentiment_gui.py ---------------------------- *)

MaxRows == 2
MaxRuns == 2

\* columns pandas reads with dtype object and a sample longer than 5 characters
ObjectColumns == {"text"}

\* the files the user can open: row count and column names of the frame read
Frames ==
    {[rows |-> n, columns |-> {"text"}, none |-> FALSE] : n \in 1..MaxRows}
        \cup {[rows |-> 1, columns |-> {"id"}, none |-> FALSE]}

\* text_columns of update_column_options
TextColumns(frame) ==
    IF frame = None THEN {} ELSE frame.columns \cap ObjectColumns

\* the count of a progress report, 0 when none was made yet
Count(report) == IF report = <<>> THEN 0 ELSE report[1]

\* a thread created by start_analysis, before its first statement; report is
\* the last (current, total) given to the progress callback, with the number
\* of results the batch held at that call and the count of the report before
NewThread ==
    [pc |-> "read", column |-> "", output_col |-> "", total |-> 0,
     results |-> 0, report |-> <<>>, stop_requested |-> FALSE]

Threads == BagToSet(runs)

\* the bag with one thread t replaced by u
Step(t, u) == (runs (-) SetToBag({t})) (+) SetToBag({u})

\* load_file, with update_column_options and the on_column_selected it calls
load_file(f, readable) ==
    /\ program = "sentiment_gui"
    /\ IF ~readable
       THEN UNCHANGED <<current_data, selected_column, output_column_name,
                        analyze_button>>
       ELSE /\ current_data' = f
            /\ IF TextColumns(f) # {}
               THEN \E col \in TextColumns(f) :
                       /\ selected_column' = col
                       /\ output_column_name' = col \o "_sentiment_results"
                       /\ analyze_button' = "normal"
               ELSE /\ UNCHANGED <<selected_column, output_column_name>>
                    /\ analyze_button' =
                          IF selected_column # "" THEN "normal" ELSE analyze_button
    /\ UNCHANGED <<analysis_running, stop_button, after_queue, runs, started>>
    /\ UNCHANGED <<program, ensembleVars, mmVars>>

\* the user picks col in the read-only combobox; the handler follows
on_column_selected(col) ==
    /\ program = "sentiment_gui"
    /\ col \in TextColumns(current_data)
    /\ selected_column' = col
    /\ output_column_name' = col \o "_sentiment_results"
    /\ analyze_button' = "normal"
    /\ UNCHANGED <<current_data, analysis_running, stop_button, after_queue,
                   runs, started>>
    /\ UNCHANGED <<program, ensembleVars, mmVars>>

\* a click on the Start button
start_analysis ==
    /\ program = "sentiment_gui"
    /\ analyze_button = "normal"
    /\ started < MaxRuns
    /\ \E overwrite \in BOOLEAN :
          IF \/ current_data = None \/ selected_column = ""
             \/ output_column_name = ""
             \/ (output_column_name \in current_data.columns /\ ~overwrite)
          THEN UNCHANGED <<analysis_running, analyze_button, stop_button, runs,
                           started>>
          ELSE /\ analysis_running' = TRUE
               /\ analyze_button' = "disabled"
               /\ stop_button' = "normal"
               /\ runs' = runs (+) SetToBag({NewThread})
               /\ started' = started + 1
    /\ UNCHANGED <<current_data, selected_column, output_column_name, after_queue>>
    /\ UNCHANGED <<program, ensembleVars, mmVars>>

\* the thread t once a stop has been asked for during its batch
Stopped(t) ==
    IF t.pc \in {"read", "batch"} THEN [t EXCEPT !.stop_requested = TRUE] ELSE t

\* a click on the Stop button
stop_analysis ==
    /\ program = "sentiment_gui"
    /\ stop_button = "normal"
    /\ analysis_running' = FALSE
    /\ runs' = [u \in {Stopped(t) : t \in Threads} |->
                   LET v == [u EXCEPT !.stop_requested = FALSE]
                   IN (IF u \in Threads THEN runs[u] ELSE 0)
                       + (IF v # u /\ v \in Threads /\ Stopped(v) = u
                          THEN runs[v] ELSE 0)]
    /\ UNCHANGED <<current_data, selected_column, output_column_name,
                   analyze_button, stop_button, after_queue, started>>
    /\ UNCHANGED <<program, ensembleVars, mmVars>>

\* run_analysis up to the call of analyze_batch
run_analysis_read(t) ==
    /\ program = "sentiment_gui"
    /\ t.pc = "read"
    /\ IF selected_column \in current_data.columns
       THEN /\ runs' = Step(t, [t EXCEPT !.pc = "batch",
                                         !.column = selected_column,
                                         !.output_col = output_column_name,
                                         !.total = current_data.rows])
            /\ UNCHANGED after_queue
       ELSE /\ runs' = runs (-) SetToBag({t})
            /\ after_queue' = Append(after_queue, "analysis_failed")
    /\ UNCHANGED <<current_data, selected_column, output_column_name,
                   analysis_running, analyze_button, stop_button, started>>
    /\ UNCHANGED <<program, ensembleVars, mmVars>>

\* mutant: the loop of analyze_batch gives up once analysis_running is cleared
analyze_batch_cancel(t) ==
    /\ program = "sentiment_gui"
    /\ t.pc = "batch"
    /\ IF t.results < t.total /\ analysis_running
       THEN runs' = Step(t, [t EXCEPT
                                !.report = <<t.results + 1, t.total, t.results, Count(t.report)>>,
                                !.results = @ + 1])
       ELSE runs' = Step(t, [t EXCEPT !.pc = "returned"])
    /\ UNCHANGED <<after_queue, current_data, selected_column, output_column_name,
                   analysis_running, analyze_button, stop_button, started>>
    /\ UNCHANGED <<program, ensembleVars, mmVars>>

\* mutant: the callback is given the number of finished texts
analyze_batch_after(t) ==
    /\ program = "sentiment_gui"
    /\ t.pc = "batch"
    /\ IF t.results < t.total
       THEN runs' = Step(t, [t EXCEPT
                                !.report = <<t.results, t.total, t.results, Count(t.report)>>,
                                !.results = @ + 1])
       ELSE runs' = Step(t, [t EXCEPT !.pc = "returned"])
    /\ UNCHANGED <<after_queue, current_data, selected_column, output_column_name,
                   analysis_running, analyze_button, stop_button, started>>
    /\ UNCHANGED <<program, ensembleVars, mmVars>>

\* one turn of the loop of analyze_batch: the callback gets (i + 1, total),
\* then text i is analysed and its result appended; after the last text the
\* list is returned. update_progress only redraws the progress bar and the
\* label (and only while analysis_running); the display is not in the state.
analyze_batch(t) ==
    /\ program = "sentiment_gui"
    /\ t.pc = "batch"
    /\ IF t.results < t.total
       THEN runs' = Step(t, [t EXCEPT
                                !.report = <<t.results + 1, t.total, t.results, Count(t.report)>>,
                                !.results = @ + 1])
       ELSE runs' = Step(t, [t EXCEPT !.pc = "returned"])
    /\ UNCHANGED <<after_queue, current_data, selected_column, output_column_name,
                   analysis_running, analyze_button, stop_button, started>>
    /\ UNCHANGED <<program, ensembleVars, mmVars>>

\* mutant: a stopped run ends without scheduling a handler
run_analysis_finish_silent(t) ==
    /\ program = "sentiment_gui"
    /\ t.pc = "returned"
    /\ runs' = runs (-) SetToBag({t})
    /\ IF analysis_running
       THEN IF current_data.rows = t.results
            THEN /\ current_data' =
                       [current_data EXCEPT !.columns = @ \cup
                           {t.output_col, t.output_col \o "_score",
                            t.output_col \o "_confidence"}]
                 /\ after_queue' = Append(after_queue, "analysis_completed")
            ELSE /\ after_queue' = Append(after_queue, "analysis_failed")
                 /\ UNCHANGED current_data
       ELSE /\ UNCHANGED after_queue
            /\ UNCHANGED current_data
    /\ UNCHANGED <<selected_column, output_column_name, analysis_running,
                   analyze_button, stop_button, started>>
    /\ UNCHANGED <<program, ensembleVars, mmVars>>

\* run_analysis after analyze_batch returned: store the three columns and
\* schedule analysis_completed, or schedule analysis_stopped; an exception
\* (a frame of another length) schedules analysis_failed
run_analysis_finish(t) ==
    /\ program = "sentiment_gui"
    /\ t.pc = "returned"
    /\ runs' = runs (-) SetToBag({t})
    /\ IF analysis_running
       THEN IF current_data.rows = t.results
            THEN /\ current_data' =
                       [current_data EXCEPT !.columns = @ \cup
                           {t.output_col, t.output_col \o "_score",
                            t.output_col \o "_confidence"}]
                 /\ after_queue' = Append(after_queue, "analysis_completed")
            ELSE /\ after_queue' = Append(after_queue, "analysis_failed")
                 /\ UNCHANGED current_data
       ELSE /\ after_queue' = Append(after_queue, "analysis_stopped")
            /\ UNCHANGED current_data
    /\ UNCHANGED <<selected_column, output_column_name, analysis_running,
                   analyze_button, stop_button, started>>
    /\ UNCHANGED <<program, ensembleVars, mmVars>>

\* the main loop runs analysis_completed
analysis_completed ==
    /\ program = "sentiment_gui"
    /\ after_queue # <<>>
    /\ Head(after_queue) = "analysis_completed"
    /\ analysis_running' = FALSE
    /\ analyze_button' = "normal"
    /\ stop_button' = "disabled"
    /\ after_queue' = Tail(after_queue)
    /\ UNCHANGED <<current_data, selected_column, output_column_name, runs,
                   started>>
    /\ UNCHANGED <<program, ensembleVars, mmVars>>

\* the main loop runs analysis_stopped
analysis_stopped ==
    /\ program = "sentiment_gui"
    /\ after_queue # <<>>
    /\ Head(after_queue) = "analysis_stopped"
    /\ analysis_running' = FALSE
    /\ analyze_button' = "normal"
    /\ stop_button' = "disabled"
    /\ after_queue' = Tail(after_queue)
    /\ UNCHANGED <<current_data, selected_column, output_column_name, runs,
                   started>>
    /\ UNCHANGED <<program, ensembleVars, mmVars>>

\* the main loop runs analysis_failed
analysis_failed ==
    /\ program = "sentiment_gui"
    /\ after_queue # <<>>
    /\ Head(after_queue) = "analysis_failed"
    /\ analysis_running' = FALSE
    /\ analyze_button' = "normal"
    /\ stop_button' = "disabled"
    /\ after_queue' = Tail(after_queue)
    /\ UNCHANGED <<current_data, selected_column, output_column_name, runs,
                   started>>
    /\ UNCHANGED <<program, ensembleVars, mmVars>>

GuiNext ==
    \/ \E f \in Frames, readable \in BOOLEAN : load_file(f, readable)
    \/ \E col \in ObjectColumns : on_column_selected(col)
    \/ start_analysis
    \/ stop_analysis
    \/ \E t \in Threads : run_analysis_read(t)
    \/ \E t \in Threads : analyze_batch(t)
    \/ \E t \in Threads : run_analysis_finish(t)
    \/ analysis_completed
    \/ analysis_stopped
    \/ analysis_failed

(* ----------------------- multi_model_sentiment.py ----------------------- *)

MaxBatch == 201
ProgressEvery == 100

ModelKeys == {"textblob", "vader", "distilbert", "roberta", "bert_large", "openai"}

TransformerKeys == {"distilbert", "roberta", "bert_large"}

\* values of the model_choice argument
Choices == {"auto", "unknown"} \cup ModelKeys

\* MultiModelSentimentAnalyzer.__init__ up to its if: the argument is kept
\* and ModelSelector() makes one import attempt per package
check_available_packages(choice, textblob_ok, vader_ok, tf_ok, openai_ok) ==
    /\ program = "multi_model_sentiment"
    /\ mm_pc = "new"
    /\ model_choice' = choice
    /\ available_models' =
          [k \in ModelKeys |->
              CASE k = "textblob" -> textblob_ok
                [] k = "vader" -> vader_ok
                [] k \in TransformerKeys -> tf_ok
                [] k = "openai" -> openai_ok]
    /\ selected_model' = "None"
    /\ analyzer' = "None"
    /\ mm_pc' = "init"
    /\ UNCHANGED <<batch_total, batch_i, show_progress, printed>>
    /\ UNCHANGED <<program, ensembleVars, guiVars>>

\* mutant: the largest model first
priority_order_accuracy == <<"bert_large", "roberta", "distilbert", "vader", "textblob">>

priority_order == <<"roberta", "distilbert", "vader", "textblob">>

Available(model_key) ==
    model_key \in DOMAIN available_models /\ available_models[model_key]

\* the for loop of auto_select_model from position k: the key it breaks on
RECURSIVE FirstAvailable(_, _)
FirstAvailable(order, k) ==
    IF k > Len(order) THEN "None"
    ELSE IF Available(order[k]) THEN order[k]
    ELSE FirstAvailable(order, k + 1)

\* __init__ with model_choice = 'auto'
auto_select_model ==
    /\ program = "multi_model_sentiment"
    /\ mm_pc = "init"
    /\ model_choice = "auto"
    /\ selected_model' = FirstAvailable(priority_order, 1)
    /\ mm_pc' = IF selected_model' = "None" THEN "ready" ELSE "load"
    /\ UNCHANGED <<model_choice, available_models, analyzer, batch_total, batch_i,
                   show_progress, printed>>
    /\ UNCHANGED <<program, ensembleVars, guiVars>>

\* __init__ with any other model_choice
load_specific_model(model_key) ==
    /\ program = "multi_model_sentiment"
    /\ mm_pc = "init"
    /\ model_choice # "auto"
    /\ model_key = model_choice
    /\ IF Available(model_key)
       THEN selected_model' = model_key /\ mm_pc' = "load"
       ELSE UNCHANGED selected_model /\ mm_pc' = "ready"
    /\ UNCHANGED <<model_choice, available_models, analyzer, batch_total, batch_i,
                   show_progress, printed>>
    /\ UNCHANGED <<program, ensembleVars, guiVars>>

\* the lambda load_model installs for a key
AnalyzerOf(model_key) ==
    IF model_key \in TransformerKeys THEN "transformer" ELSE model_key

\* load_model: loaded is FALSE when the import or the pipeline raises, or no
\* API key is typed
load_model(loaded) ==
    /\ program = "multi_model_sentiment"
    /\ mm_pc = "load"
    /\ analyzer' = IF loaded THEN AnalyzerOf(selected_model) ELSE analyzer
    /\ mm_pc' = "ready"
    /\ UNCHANGED <<model_choice, available_models, selected_model, batch_total, batch_i,
                   show_progress, printed>>
    /\ UNCHANGED <<program, ensembleVars, guiVars>>

BatchLengths == {0, 1, MaxBatch}

\* batch_analyze up to its loop; the banner looks selected_model up
batch_analyze(n, flag) ==
    /\ program = "multi_model_sentiment"
    /\ mm_pc \in {"ready", "returned", "raised"}
    /\ batch_total' = n
    /\ batch_i' = 0
    /\ show_progress' = flag
    /\ printed' = <<>>
    /\ mm_pc' = IF flag /\ selected_model = "None" THEN "raised" ELSE "batch"
    /\ UNCHANGED <<model_choice, available_models, selected_model, analyzer>>
    /\ UNCHANGED <<program, ensembleVars, guiVars>>

\* the analyzers whose library call is not wrapped in try/except
Unguarded == {"textblob", "vader", "transformer"}

\* one turn of the loop of batch_analyze: a progress line every 100 texts,
\* then analyze_text on text i; printed holds (i, total) of the last line with
\* the number of results at that moment and the count of the line before
batch_analyze_loop(outcome) ==
    /\ program = "multi_model_sentiment"
    /\ mm_pc = "batch"
    /\ batch_i < batch_total
    /\ printed' = IF show_progress /\ batch_i % ProgressEvery = 0 /\ batch_i > 0
                  THEN <<batch_i, batch_total, batch_i, Count(printed)>>
                  ELSE printed
    /\ IF outcome = "raise" /\ analyzer \in Unguarded
       THEN mm_pc' = "raised" /\ UNCHANGED batch_i
       ELSE batch_i' = batch_i + 1 /\ UNCHANGED mm_pc
    /\ UNCHANGED <<model_choice, available_models, selected_model, analyzer, batch_total,
                   show_progress>>
    /\ UNCHANGED <<program, ensembleVars, guiVars>>

\* the loop is over: batch_analyze returns results
batch_analyze_return ==
    /\ program = "multi_model_sentiment"
    /\ mm_pc = "batch"
    /\ batch_i = batch_total
    /\ mm_pc' = "returned"
    /\ UNCHANGED <<model_choice, available_models, selected_model, analyzer, batch_total,
                   batch_i, show_progress, printed>>
    /\ UNCHANGED <<program, ensembleVars, guiVars>>

MultiModelNext ==
    \/ \E choice \in Choices, a, b, c, d \in BOOLEAN :
          check_available_packages(choice, a, b, c, d)
    \/ auto_select_model
    \/ \E model_key \in Choices : load_specific_model(model_key)
    \/ \E loaded \in BOOLEAN : load_model(loaded)
    \/ \E n \in BatchLengths, flag \in BOOLEAN : batch_analyze(n, flag)
    \/ \E outcome \in {"result", "raise"} : batch_analyze_loop(outcome)
    \/ batch_analyze_return

(* ---------------------- the two tools as one system -------------------- *)

\* one of the two scripts is started
AppInit ==
    /\ program \in {"sentiment_gui", "multi_model_sentiment"}
    /\ EnsembleOff
    /\ GuiInit
    /\ NoMultiModel

AppNext == GuiNext \/ MultiModelNext

AppSpec == AppInit /\ [][AppNext]_vars

\* daemon threads run and the Tk main loop serves its queue
FairAppSpec ==
    /\ AppSpec
    /\ WF_vars(\E t \in Threads : run_analysis_read(t))
    /\ WF_vars(\E t \in Threads : analyze_batch(t))
    /\ WF_vars(\E t \in Threads : run_analysis_finish(t))
    /\ WF_vars(analysis_completed)
    /\ WF_vars(analysis_stopped)
    /\ WF_vars(analysis_failed)

\* C15: at most one run_analysis thread is alive at any time; no click or
\* selection starts a second one while the first has not ended.
C15_OneThread ==
    program = "sentiment_gui" =>
        BagCardinality(runs) <= 1

\* what C16 says of the GUI: a batch that has returned holds a result for
\* each of its texts, stop or no stop
EveryTextAnalysed ==
    \A t \in Threads : t.pc = "returned" => t.results = t.total

WellFormed(report, length) ==
    report # <<>> =>
        /\ 0 < report[1] /\ report[1] <= report[2]
        /\ report[2] = length
        /\ report[4] < report[1]

\* C17: every progress report carries (count, total) with count the number of
\* texts already analysed, 0 < count <= total, total the batch length, and
\* counts strictly increasing within a batch.
C17_CountIsFinished ==
    /\ \A t \in Threads :
          /\ WellFormed(t.report, t.total)
          /\ t.report # <<>> => t.report[1] = t.report[3]
    /\ WellFormed(printed, batch_total)
    /\ printed # <<>> => printed[1] = printed[3]

\* C17 amended: as C17, but in the GUI count is the 1-based position of the
\* text about to be analysed (one more than the number finished); only
\* batch_analyze counts the texts finished.
C17_CountIsPosition ==
    /\ \A t \in Threads :
          /\ WellFormed(t.report, t.total)
          /\ t.report # <<>> => t.report[1] = t.report[3] + 1
    /\ WellFormed(printed, batch_total)
    /\ printed # <<>> => printed[1] = printed[3]

\* a GUI batch has made its second report
C17_Witness ==
    \E t \in Threads : t.report # <<>> /\ t.report[1] = 2 /\ t.report[4] = 1

\* the step ends thread t
Ends(t) ==
    /\ BagCardinality(runs') < BagCardinality(runs)
    /\ CopiesIn(t, runs') < CopiesIn(t, runs)

\* C18: a run during whose batch stop_analysis was invoked ends by scheduling
\* analysis_stopped and never writes the result columns.
C18_StoppedRunEndsStopped ==
    [][\A t \in Threads :
          (t.stop_requested /\ Ends(t)) =>
              /\ after_queue' = Append(after_queue, "analysis_stopped")
              /\ current_data' = current_data]_vars

Handlers == {"analysis_completed", "analysis_stopped", "analysis_failed"}

\* a run is under way or its handler is still waiting in the queue
Active == runs # EmptyBag \/ after_queue # <<>>

\* C19: every run schedules exactly one of the three handlers when it ends,
\* every active run is eventually handled, and each handler leaves
\* analysis_running False, Start enabled and Stop disabled.
C19_RunsEndHandled ==
    /\ Active ~> ~Active
    /\ [][/\ BagCardinality(runs') < BagCardinality(runs) =>
                /\ BagCardinality(runs') = BagCardinality(runs) - 1
                /\ Len(after_queue') = Len(after_queue) + 1
                /\ after_queue'[Len(after_queue')] \in Handlers
          /\ Len(after_queue') > Len(after_queue) =>
                BagCardinality(runs') < BagCardinality(runs)
          /\ Len(after_queue') < Len(after_queue) =>
                /\ ~analysis_running'
                /\ analyze_button' = "normal"
                /\ stop_button' = "disabled"]_vars

\* every run started has been handled and the buttons are back
C19_Witness ==
    /\ started = MaxRuns
    /\ ~Active
    /\ ~analysis_running
    /\ analyze_button = "normal"
    /\ stop_button = "disabled"

\* C20: automatic selection takes the first available of roberta, distilbert,
\* vader, textblob, never bert_large or openai, and with none of the four
\* available leaves selected_model and analyzer None.
C20_AutoSelectOrder ==
    (model_choice = "auto" /\ mm_pc \notin {"new", "init"}) =>
        /\ selected_model =
              IF available_models["roberta"] THEN "roberta"
              ELSE IF available_models["distilbert"] THEN "distilbert"
              ELSE IF available_models["vader"] THEN "vader"
              ELSE IF available_models["textblob"] THEN "textblob"
              ELSE "None"
        /\ selected_model \notin {"bert_large", "openai"}
        /\ selected_model = "None" => analyzer = "None"

\* vader was taken although textblob and openai were there too
C20_Witness ==
    /\ model_choice = "auto"
    /\ mm_pc = "ready"
    /\ selected_model = "vader"
    /\ analyzer = "vader"
    /\ available_models["textblob"]
    /\ available_models["openai"]

\* the four sources have been consulted for a text that is not empty
Collected == pc \in {"weights", "vote", "returned", "error"} /\ ~IsEmptyText(text)

\* C21: for a text of at least 3 trimmed characters the judgment list holds 2
\* to 4 judgments, the Domain-Specific and the TextBlob one among them, and
\* 'fallback' is never returned.
C21_ListNeverEmpty ==
    /\ Collected =>
          /\ Len(results) \in 2..4
          /\ Contributed("Domain-Specific")
          /\ Contributed("TextBlob")
    /\ ret # NoValue => ret[3] # "fallback"

\* a vote over the shortest list there is: VADER failed, TextBlob failed too
C21_Witness ==
    /\ Voted
    /\ Len(results) = 2
    /\ raised = {"VADER", "TextBlob"}

\* C22: the schedule chosen is never shorter than the judgment list (4
\* entries and at most 4 judgments with use_advanced, 3 and at most 3
\* without), so weights[i] is never out of range.
C22_ScheduleCoversList ==
    /\ pc = "vote" =>
          /\ Len(weights) >= Len(results)
          /\ Len(weights) = IF use_advanced THEN 4 ELSE 3
          /\ Len(results) <= IF use_advanced THEN 4 ELSE 3
    /\ Voted => Len(weights) = Len(results)
    /\ pc # "error"

\* the schedule is used to its last entry, with and without the transformer
C22_Witness ==
    /\ pc = "vote"
    /\ Len(results) = Len(weights)
    /\ use_advanced
    /\ HasTransformer

\* C23: with every confidence in [0,1] the three accumulated scores sum to at
\* most 1, the winning score is at most 1, and min(score, 1.0) returns the
\* score unchanged.
C23_ClampIsIdle ==
    (Voted /\ \A i \in DOMAIN results : InUnit(results[i][2])) =>
        /\ RLeq(RAdd(sentiment_scores["Positive"],
                     RAdd(sentiment_scores["Negative"],
                          sentiment_scores["Neutral"])), One)
        /\ RLeq(sentiment_scores[ret[1]], One)
        /\ ret[2] = sentiment_scores[ret[1]]

\* every source is sure of the same label: the winning score is exactly 1
C23_Witness ==
    /\ Voted
    /\ Len(results) = 4
    /\ \A i \in DOMAIN results : results[i][2] = One
    /\ sentiment_scores[ret[1]] = One
    /\ ret[2] = One

\* C24: the label returned by a vote is the label of a judgment in the list
\* and its score is strictly positive; when all judgments carry one label,
\* that label is returned.
C24_WinnerWasVotedFor ==
    Voted =>
        /\ \E i \in DOMAIN results : results[i][1] = ret[1]
        /\ RLt(Zero, sentiment_scores[ret[1]])
        /\ \A l \in Labels :
              (\A i \in DOMAIN results : results[i][1] = l) => ret[1] = l

\* all judgments say Neutral, TextBlob with confidence 0, and Neutral wins
\* though it is last in the order of the tie-break
C24_Witness ==
    /\ Voted
    /\ \A i \in DOMAIN results : results[i][1] = "Neutral"
    /\ \E i \in DOMAIN results : results[i][2] = Zero
    /\ ret[1] = "Neutral"

====
